---- MODULE Spec2Model ----
(***************************************************************************)
(* Deep-unwrap traversal (objectIterator / toRawDeep) of                   *)
(* content/blog/pulumi-static-site-deployment.md, lines 279-306.           *)
(*                                                                         *)
(* JavaScript values live in a heap of cells with identity.  A value is a  *)
(* primitive or a pointer to a cell; a cell is an array, a plain object, a *)
(* class instance, a Vue ref (RefImpl), or a Vue reactive / readonly       *)
(* proxy.  The recursion of objectIterator is an explicit call stack, one  *)
(* frame per activation, so that non-returning calls are visible.          *)
(***************************************************************************)
EXTENDS Integers, Sequences, FiniteSets, TLC

\* ---------------------------------------------------------------- bounds
MaxSlots == 2      \* items, fields and wrapped contents of the input, in total
MaxStack == 7      \* call-stack depth the engine allows before RangeError

Keys == {"x", "y"}
KeyOrder == <<"x", "y">>

\* ---------------------------------------------------------------- values
Num(k) == [tag |-> "num", n |-> k]
Null == [tag |-> "null", n |-> 0]
Ptr(a) == [tag |-> "ptr", n |-> a]

Prims == {Num(5), Null}

IsPtr(v) == v.tag = "ptr"

\* ----------------------------------------------------------------- cells
ArrayCell(es) == [kind |-> "array", elems |-> es, fields |-> <<>>, value |-> Null, raw |-> Null]
ObjectCell(fs) == [kind |-> "object", elems |-> <<>>, fields |-> fs, value |-> Null, raw |-> Null]
InstanceCell(fs) == [kind |-> "instance", elems |-> <<>>, fields |-> fs, value |-> Null, raw |-> Null]
RefCell(v) == [kind |-> "ref", elems |-> <<>>, fields |-> <<>>, value |-> v, raw |-> Null]
ReactiveCell(t) == [kind |-> "reactive", elems |-> <<>>, fields |-> <<>>, value |-> Null, raw |-> t]
ReadonlyCell(t) == [kind |-> "readonly", elems |-> <<>>, fields |-> <<>>, value |-> Null, raw |-> t]

Kind(h, v) == IF IsPtr(v) THEN h[v.n].kind ELSE "primitive"

\* Object.entries order of a keyed cell: its own keys, in a fixed order.
Entries(c) == SelectSeq(KeyOrder, LAMBDA k : k \in DOMAIN c.fields)

\* ------------------------------------------------- reactivity predicates
isProxy(h, v) == Kind(h, v) \in {"reactive", "readonly"}

RECURSIVE toRaw(_, _)
toRaw(h, v) == IF isProxy(h, v) THEN toRaw(h, h[v.n].raw) ELSE v

isRef(h, v) == Kind(h, toRaw(h, v)) = "ref"

RECURSIVE isReactive(_, _)
isReactive(h, v) ==
    IF Kind(h, v) = "readonly" THEN isReactive(h, h[v.n].raw)
    ELSE Kind(h, v) = "reactive"

IsWrapper(h, v) == isRef(h, v) \/ isReactive(h, v) \/ isProxy(h, v)

isArray(h, v) == Kind(h, v) = "array"

\* Variants of the object test: one without the branch at all, one that
\* accepts plain objects only.
NeverObjectLike(h, v) == FALSE
OnlyPlainObject(h, v) == Kind(h, v) = "object"

\* line 288: input && typeof input === 'object' (any non-null object)
IsObjectLike(h, v) == IsPtr(v)

isRecord(h, v) == Kind(h, v) = "object"

\* ------------------------------------------------------ caller's inputs
SeqsUpTo(S, m) == UNION {[1..k -> S] : k \in 0..m}
FieldMaps(S, m) == UNION {[D -> S] : D \in {E \in SUBSET Keys : Cardinality(E) <= m}}

\* The slots of a cell: its items, its fields, or the one thing it wraps.
Slots(c) ==
    Len(c.elems) + Cardinality(DOMAIN c.fields)
        + (IF c.kind \in {"ref", "reactive", "readonly"} THEN 1 ELSE 0)

RECURSIVE SlotsUsed(_)
SlotsUsed(h) == IF h = <<>> THEN 0 ELSE Slots(Head(h)) + SlotsUsed(Tail(h))

\* What the caller can put into a new cell: a primitive or an existing cell.
ValsOf(h) == Prims \cup {Ptr(a) : a \in 1..Len(h)}

\* reactive(t) makes a new proxy only for a target that is not a proxy yet;
\* readonly(t) only for a target that is not a readonly proxy yet.
ReactiveTargets(h) == {Ptr(a) : a \in {b \in 1..Len(h) : h[b].kind \notin {"reactive", "readonly"}}}
ReadonlyTargets(h) == {Ptr(a) : a \in {b \in 1..Len(h) : h[b].kind # "readonly"}}

NewCells(h, s) ==
    {ArrayCell(es) : es \in SeqsUpTo(ValsOf(h), s)}
    \cup {ObjectCell(fs) : fs \in FieldMaps(ValsOf(h), s)}
    \cup {InstanceCell(fs) : fs \in FieldMaps(ValsOf(h), s)}
    \cup (IF s = 0 THEN {}
          ELSE {RefCell(v) : v \in ValsOf(h)}
               \cup {ReactiveCell(t) : t \in ReactiveTargets(h)}
               \cup {ReadonlyCell(t) : t \in ReadonlyTargets(h)})

\* The cells a cell points to, and the cells reachable from a value.
Children(c) ==
    {c.elems[i].n : i \in {j \in DOMAIN c.elems : IsPtr(c.elems[j])}}
    \cup {c.fields[k].n : k \in {j \in DOMAIN c.fields : IsPtr(c.fields[j])}}
    \cup (IF IsPtr(c.value) THEN {c.value.n} ELSE {})
    \cup (IF IsPtr(c.raw) THEN {c.raw.n} ELSE {})

RECURSIVE ReachFrom(_, _)
ReachFrom(h, S) ==
    LET T == S \cup UNION {Children(h[a]) : a \in S}
    IN IF T = S THEN S ELSE ReachFrom(h, T)

Reach(h, v) == IF IsPtr(v) THEN ReachFrom(h, {v.n}) ELSE {}

\* ------------------------------------------------------------------ state
VARIABLES heap, heap0, input, entry, stack, ret, pc, result, error, pass, prev

vars == <<heap, heap0, input, entry, stack, ret, pc, result, error, pass, prev>>

Frame(v) == [input |-> v, acc |-> <<>>]

Top == stack[Len(stack)]
Pop == SubSeq(stack, 1, Len(stack) - 1)

Init ==
    /\ heap = <<>>
    /\ heap0 = <<>>
    /\ input = Null
    /\ entry = "none"
    /\ stack = <<>>
    /\ ret = Null
    /\ pc = "idle"
    /\ result = Null
    /\ error = "none"
    /\ pass = 0
    /\ prev = Null

\* ------------------------------------------------- results of the branches
\* Variant of the array result that loses the last item.
ArrayResultDropLast(acc) == SubSeq(acc, 1, Len(acc) - 1)

\* Array.prototype.map hands back the mapped items, in order (line 285).
ArrayResult(acc) == acc

\* Object.fromEntries over the mapped entries (lines 289-292).
ObjectResult(c, acc) ==
    [k \in DOMAIN c.fields |->
        acc[CHOOSE i \in 1..Len(Entries(c)) : Entries(c)[i] = k]]

\* Variant of the fall-through that returns nothing useful.
ReturnNothing(v) == Null

\* The fall-through `return input` (line 295).
ReturnValue(v) == v

\* Variant that writes the mapped content back into the source container.
StoreInPlace(h, src, c) == [heap |-> [h EXCEPT ![src.n] = c], ptr |-> src]

\* A container built by map / fromEntries is a new cell of the heap.
Store(h, src, c) == [heap |-> Append(h, c), ptr |-> Ptr(Len(h) + 1)]

\* Which branch of objectIterator the running frame takes.
WrapperBranch == IsWrapper(heap, Top.input)
ArrayBranch == ~WrapperBranch /\ isArray(heap, Top.input)
ObjectBranch == ~WrapperBranch /\ ~isArray(heap, Top.input) /\ IsObjectLike(heap, Top.input)
PrimitiveBranch == ~WrapperBranch /\ ~isArray(heap, Top.input) /\ ~IsObjectLike(heap, Top.input)

TopCell == heap[Top.input.n]

\* An activation returns r to the activations st below it: a wrapper
\* activation (line 281) returns r in turn, a map callback (lines 285, 291)
\* hands r to the enclosing map, which collects it.
RECURSIVE Deliver(_, _)
Deliver(st, r) ==
    IF st = <<>> THEN <<>>
    ELSE IF IsWrapper(heap, st[Len(st)].input)
         THEN Deliver(SubSeq(st, 1, Len(st) - 1), r)
         ELSE [st EXCEPT ![Len(st)].acc = Append(@, r)]

AfterReturn(st) == IF st = <<>> THEN "ret" ELSE "run"

\* The arguments the caller can pass: a primitive, or the value it has just
\* built, every cell of which belongs to that value.
Arguments ==
    IF heap = <<>> THEN Prims
    ELSE {v \in {Ptr(Len(heap))} : Reach(heap, v) = 1..Len(heap)}

\* The cells no other cell points to.  The value under construction can
\* still become one value if a later cell has the slots to hold them all.
Roots(h) == (1..Len(h)) \ UNION {Children(h[a]) : a \in 1..Len(h)}

Completable(h) ==
    \/ Cardinality(Roots(h)) <= 1
    \/ MaxSlots - SlotsUsed(h) >= Cardinality(Roots(h))

\* ---------------------------------------------------------------- actions
\* the caller builds its value, one array, object, instance, ref or proxy at
\* a time, before the call
NewCell ==
    /\ pc = "idle"
    /\ \E c \in NewCells(heap, MaxSlots - SlotsUsed(heap)) :
         /\ Completable(Append(heap, c))
         /\ heap' = Append(heap, c)
    /\ heap0' = heap'
    /\ UNCHANGED <<input, entry, stack, ret, pc, result, error, pass, prev>>

CallObjectIterator ==
    /\ pc = "idle"
    /\ \E v \in Arguments :
         /\ input' = v
         /\ stack' = <<Frame(v)>>
    /\ entry' = "objectIterator"
    /\ pc' = "run"
    /\ pass' = 1
    /\ UNCHANGED <<heap, heap0, ret, result, error, prev>>

CallToRawDeep ==
    /\ pc = "idle"
    /\ \E v \in Arguments :
         /\ input' = v
         /\ stack' = <<Frame(v)>>
    /\ entry' = "toRawDeep"
    /\ pc' = "run"
    /\ pass' = 1
    /\ UNCHANGED <<heap, heap0, ret, result, error, prev>>

\* lines 280-281: the recursive call on toRaw(input)
Unwrap ==
    /\ pc = "run"
    /\ WrapperBranch
    /\ Len(stack) < MaxStack
    /\ stack' = Append(stack, Frame(toRaw(heap, Top.input)))
    /\ UNCHANGED <<heap, heap0, input, entry, ret, pc, result, error, pass, prev>>

\* line 285: the map callback calls objectIterator on the next item
MapItem ==
    /\ pc = "run"
    /\ ArrayBranch
    /\ Len(Top.acc) < Len(TopCell.elems)
    /\ Len(stack) < MaxStack
    /\ stack' = Append(stack, Frame(TopCell.elems[Len(Top.acc) + 1]))
    /\ UNCHANGED <<heap, heap0, input, entry, ret, pc, result, error, pass, prev>>

\* line 285: map has visited every item; the new array is returned
ReturnArray ==
    /\ pc = "run"
    /\ ArrayBranch
    /\ Len(Top.acc) = Len(TopCell.elems)
    /\ LET st == Store(heap, Top.input, ArrayCell(ArrayResult(Top.acc)))
       IN /\ heap' = st.heap
          /\ ret' = st.ptr
          /\ stack' = Deliver(Pop, st.ptr)
          /\ pc' = AfterReturn(Deliver(Pop, st.ptr))
    /\ UNCHANGED <<heap0, input, entry, result, error, pass, prev>>

\* Variant with a visited set: a value that is already being traversed is
\* taken as it is instead of being traversed again.
MapEntrySkipVisited ==
    /\ pc = "run"
    /\ ObjectBranch
    /\ Len(Top.acc) < Len(Entries(TopCell))
    /\ LET v == TopCell.fields[Entries(TopCell)[Len(Top.acc) + 1]]
       IN IF \E i \in 1..Len(stack) : stack[i].input = v
          THEN stack' = [stack EXCEPT ![Len(stack)].acc = Append(@, v)]
          ELSE /\ Len(stack) < MaxStack
               /\ stack' = Append(stack, Frame(v))
    /\ UNCHANGED <<heap, heap0, input, entry, ret, pc, result, error, pass, prev>>

\* lines 290-291: the entries callback calls objectIterator on the next value
MapEntry ==
    /\ pc = "run"
    /\ ObjectBranch
    /\ Len(Top.acc) < Len(Entries(TopCell))
    /\ Len(stack) < MaxStack
    /\ stack' = Append(stack, Frame(TopCell.fields[Entries(TopCell)[Len(Top.acc) + 1]]))
    /\ UNCHANGED <<heap, heap0, input, entry, ret, pc, result, error, pass, prev>>

\* lines 289-292: every entry is mapped; Object.fromEntries builds the object
ReturnObject ==
    /\ pc = "run"
    /\ ObjectBranch
    /\ Len(Top.acc) = Len(Entries(TopCell))
    /\ LET st == Store(heap, Top.input, ObjectCell(ObjectResult(TopCell, Top.acc)))
       IN /\ heap' = st.heap
          /\ ret' = st.ptr
          /\ stack' = Deliver(Pop, st.ptr)
          /\ pc' = AfterReturn(Deliver(Pop, st.ptr))
    /\ UNCHANGED <<heap0, input, entry, result, error, pass, prev>>

\* line 295: return input
ReturnInput ==
    /\ pc = "run"
    /\ PrimitiveBranch
    /\ ret' = ReturnValue(Top.input)
    /\ stack' = Deliver(Pop, ReturnValue(Top.input))
    /\ pc' = AfterReturn(Deliver(Pop, ReturnValue(Top.input)))
    /\ UNCHANGED <<heap, heap0, input, entry, result, error, pass, prev>>

\* A further call when the engine's call stack is full: RangeError unwinds
\* every activation.
StackOverflow ==
    /\ pc = "run"
    /\ Len(stack) >= MaxStack
    /\ \/ WrapperBranch
       \/ ArrayBranch /\ Len(Top.acc) < Len(TopCell.elems)
       \/ ObjectBranch /\ Len(Top.acc) < Len(Entries(TopCell))
    /\ stack' = <<>>
    /\ pc' = "thrown"
    /\ error' = "RangeError"
    /\ UNCHANGED <<heap, heap0, input, entry, ret, result, pass, prev>>

\* the outermost objectIterator call returns to the caller
FinishObjectIterator ==
    /\ pc = "ret"
    /\ stack = <<>>
    /\ entry = "objectIterator"
    /\ result' = ret
    /\ pc' = "done"
    /\ UNCHANGED <<heap, heap0, input, entry, stack, ret, error, pass, prev>>

\* lines 301, 305: the result is a record and is returned
ReturnRecord ==
    /\ pc = "ret"
    /\ stack = <<>>
    /\ entry = "toRawDeep"
    /\ isRecord(heap, ret)
    /\ result' = ret
    /\ pc' = "done"
    /\ UNCHANGED <<heap, heap0, input, entry, stack, ret, error, pass, prev>>

\* lines 301-303: throw new TypeError(...)
ThrowTypeError ==
    /\ pc = "ret"
    /\ stack = <<>>
    /\ entry = "toRawDeep"
    /\ ~isRecord(heap, ret)
    /\ pc' = "thrown"
    /\ error' = "TypeError"
    /\ UNCHANGED <<heap, heap0, input, entry, stack, ret, result, pass, prev>>

\* the caller applies objectIterator a second time, to the value it got back
Reapply ==
    /\ pc = "done"
    /\ entry = "objectIterator"
    /\ pass = 1
    /\ prev' = result
    /\ input' = result
    /\ heap0' = heap
    /\ stack' = <<Frame(result)>>
    /\ pc' = "run"
    /\ pass' = pass + 1
    /\ UNCHANGED <<heap, entry, ret, result, error>>

Next ==
    \/ NewCell
    \/ CallObjectIterator
    \/ CallToRawDeep
    \/ Unwrap
    \/ MapItem
    \/ ReturnArray
    \/ MapEntry
    \/ ReturnObject
    \/ ReturnInput
    \/ StackOverflow
    \/ FinishObjectIterator
    \/ ReturnRecord
    \/ ThrowTypeError
    \/ Reapply

Spec == Init /\ [][Next]_vars

\* ------------------------------------------------------- cyclic inputs
\* Cell a lies on a cycle; a value holds a cycle.
OnCycle(h, a) == a \in ReachFrom(h, Children(h[a]))
ContainsCycle(h, v) == \E a \in Reach(h, v) : OnCycle(h, a)

\* Before the call the caller assigns to an item or a field of a container a
\* value that contains this container (o.x = o, a[0] = [a], ...), which
\* makes the container contain itself.
AssignSlot ==
    /\ pc = "idle"
    /\ \E a \in 1..Len(heap), b \in 1..Len(heap) :
         /\ a \in ReachFrom(heap, {b})
         /\ \/ \E i \in DOMAIN heap[a].elems :
                  heap' = [heap EXCEPT ![a].elems[i] = Ptr(b)]
            \/ \E k \in DOMAIN heap[a].fields :
                  heap' = [heap EXCEPT ![a].fields[k] = Ptr(b)]
    /\ heap0' = heap'
    /\ UNCHANGED <<input, entry, stack, ret, pc, result, error, pass, prev>>

NextCyclic ==
    \/ AssignSlot
    \/ Next

SpecCyclic == Init /\ [][NextCyclic]_vars

\* ------------------------------------------------- vocabulary of the claims
Terminal == {"done", "thrown"}

Wrappers == {"ref", "reactive", "readonly"}

\* No ref and no proxy at any depth of v.
NoWrapper(h, v) == \A a \in Reach(h, v) : h[a].kind \notin Wrappers

\* Only primitives, arrays and plain objects at every depth of v.
PureData(h, v) == \A a \in Reach(h, v) : h[a].kind \in {"array", "object"}

\* What is left of v when every wrapping layer is taken off.
RECURSIVE Core(_, _)
Core(h, v) ==
    IF isProxy(h, v) THEN Core(h, h[v.n].raw)
    ELSE IF Kind(h, v) = "ref" THEN Core(h, h[v.n].value)
    ELSE v

WrappedPrimitive(h, v) == IsWrapper(h, v) /\ ~IsPtr(Core(h, v))

\* Deep equality of two values of the heap.
RECURSIVE DeepEqual(_, _, _)
DeepEqual(h, a, b) ==
    IF ~IsPtr(a) \/ ~IsPtr(b) THEN a = b
    ELSE LET ca == h[a.n]
             cb == h[b.n]
         IN /\ ca.kind = cb.kind
            /\ Len(ca.elems) = Len(cb.elems)
            /\ \A i \in 1..Len(ca.elems) : DeepEqual(h, ca.elems[i], cb.elems[i])
            /\ DOMAIN ca.fields = DOMAIN cb.fields
            /\ \A k \in DOMAIN ca.fields : DeepEqual(h, ca.fields[k], cb.fields[k])
            /\ DeepEqual(h, ca.value, cb.value)
            /\ DeepEqual(h, ca.raw, cb.raw)

\* b is the plain image of a: proxies taken off, arrays mapped item by item,
\* keyed cells mapped key by key into plain objects, primitives kept.  A ref
\* has no image.
RECURSIVE Image(_, _, _)
Image(h, a, b) ==
    IF isProxy(h, a) THEN Image(h, toRaw(h, a), b)
    ELSE IF ~IsPtr(a) THEN b = a
    ELSE IF Kind(h, a) = "ref" THEN FALSE
    ELSE IF Kind(h, a) = "array"
         THEN /\ Kind(h, b) = "array"
              /\ Len(h[b.n].elems) = Len(h[a.n].elems)
              /\ \A i \in 1..Len(h[a.n].elems) : Image(h, h[a.n].elems[i], h[b.n].elems[i])
         ELSE /\ Kind(h, b) = "object"
              /\ DOMAIN h[b.n].fields = DOMAIN h[a.n].fields
              /\ \A k \in DOMAIN h[a.n].fields : Image(h, h[a.n].fields[k], h[b.n].fields[k])

InputCells == 1..Len(heap0)

\* ------------------------------------------------------------------ claims

\* C1: whenever objectIterator or toRawDeep returns, the returned value is a
\* Plain Value: no ref, reactive object or proxy occurs at any depth of it.
C1_PlainOutput == pc = "done" => NoWrapper(heap, result)

C1_Witness ==
    /\ pc = "done"
    /\ entry = "toRawDeep"
    /\ IsWrapper(heap0, input)
    /\ IsPtr(result)

\* C2: the traversal of a primitive p under N >= 1 wrapping layers of any
\* kind returns exactly p.
C2_WrapperCollapse ==
    (entry = "objectIterator" /\ pc \in Terminal /\ WrappedPrimitive(heap0, input))
        => (pc = "done" /\ result = Core(heap0, input))

\* C3: toRawDeep returns only keyed mappings, and a top-level input that is a
\* wrapped primitive makes it fail with a TypeError.
C3_ShapeMismatch ==
    entry = "toRawDeep" =>
        /\ pc = "done" => isRecord(heap, result)
        /\ (pc \in Terminal /\ WrappedPrimitive(heap0, input))
               => (pc = "thrown" /\ error = "TypeError")

\* C4: a second application of the traversal to the result of a first one
\* returns a value deep-equal to that result.
C4_Idempotence ==
    (pass >= 2 /\ pc = "done") => DeepEqual(heap, result, prev)

C4_Witness ==
    /\ pass >= 2
    /\ pc = "done"
    /\ IsPtr(result)
    /\ Cardinality(Reach(heap, result)) >= 2

\* C5: toRawDeep of a keyed mapping without any wrapper (primitives, arrays
\* and plain objects only) succeeds and its result deep-equals the input.
C5_StructuralEquivalence ==
    (entry = "toRawDeep" /\ pc \in Terminal
        /\ isRecord(heap0, input) /\ PureData(heap0, input))
        => (pc = "done" /\ DeepEqual(heap, result, input))

C5_Witness ==
    /\ entry = "toRawDeep"
    /\ pc = "done"
    /\ isRecord(heap0, input)
    /\ PureData(heap0, input)
    /\ Cardinality(Reach(heap0, input)) >= 2

\* C6: the traversal of any input sequence s returns a new sequence of the
\* same length whose i-th element is the traversal of s[i].
C6_SequenceOrder ==
    (entry = "objectIterator" /\ isArray(heap0, input) /\ pc \in Terminal)
        => /\ pc = "done"
           /\ isArray(heap, result)
           /\ result.n \notin InputCells
           /\ Len(heap[result.n].elems) = Len(heap0[input.n].elems)
           /\ \A i \in 1..Len(heap0[input.n].elems) :
                 Image(heap, heap0[input.n].elems[i], heap[result.n].elems[i])

\* C7: the traversal of any input keyed mapping m returns a new mapping with
\* exactly the key set of m whose value under each key k is the traversal of
\* m[k], at every nesting depth.
C7_KeySetPreserved ==
    (entry = "objectIterator" /\ isRecord(heap0, input) /\ pc \in Terminal)
        => /\ pc = "done"
           /\ isRecord(heap, result)
           /\ result.n \notin InputCells
           /\ DOMAIN heap[result.n].fields = DOMAIN heap0[input.n].fields
           /\ \A k \in DOMAIN heap0[input.n].fields :
                 Image(heap, heap0[input.n].fields[k], heap[result.n].fields[k])

\* C8: at every point of a call, returned or thrown, every cell of the
\* caller's heap is as it was at the call, and every cell of the returned
\* value is a new cell.
C8_InputNotMutated ==
    /\ SubSeq(heap, 1, Len(heap0)) = heap0
    /\ pc = "done" => Reach(heap, result) \cap InputCells = {}

C8_Witness ==
    /\ pc = "done"
    /\ IsPtr(result)
    /\ Cardinality(Reach(heap, result)) >= 2
    /\ Cardinality(InputCells) >= 2

\* C9: on acyclic input the traversal raises no error; the only failure is
\* the TypeError of toRawDeep's check of the result.
C9_NoFailure ==
    pc = "thrown" => (entry = "toRawDeep" /\ error = "TypeError")

\* C10 as claimed: the traversal of a class instance returns that very
\* instance.
C10_InstanceReturnedAsIs ==
    (pc = "done" /\ Kind(heap0, input) = "instance") => result = input

\* C10 as the code has it: when the traversal of a value containing a class
\* instance returns, every instance has been traversed like a keyed mapping:
\* the result is the plain image of the input and holds no instance.
C10_InstanceTraversed ==
    (pc = "done" /\ \E a \in Reach(heap0, input) : heap0[a].kind = "instance")
        => /\ Image(heap, input, result)
           /\ \A a \in Reach(heap, result) : heap[a].kind # "instance"
           /\ result # input

C10_Witness ==
    /\ pc = "done"
    /\ Kind(heap0, input) = "instance"
    /\ DOMAIN heap0[input.n].fields = Keys
    /\ \E k \in Keys : IsPtr(heap0[input.n].fields[k])

\* C11: the traversal keeps no visited set: for an input that transitively
\* contains itself the outermost call never returns and no result is ever
\* produced; the call can only end in the RangeError of an exhausted stack.
C11_CyclicNeverReturns ==
    ContainsCycle(heap0, input)
        => /\ pc \notin {"ret", "done"}
           /\ pc = "thrown" => error = "RangeError"

C11_Witness ==
    /\ ContainsCycle(heap0, input)
    /\ NoWrapper(heap0, input)
    /\ pc = "thrown"
    /\ error = "RangeError"

\* C12: the kind checks run in the order wrapper, sequence, keyed mapping,
\* primitive: the traversal of a wrapped sequence returns a sequence, the
\* plain image of the wrapped one, and the traversal of a wrapper whose
\* content is null/undefined returns that primitive.
C12_DispatchPriority ==
    (entry = "objectIterator" /\ pc \in Terminal /\ IsWrapper(heap0, input))
        => /\ isArray(heap0, Core(heap0, input))
                => /\ pc = "done"
                   /\ isArray(heap, result)
                   /\ Image(heap, Core(heap0, input), result)
           /\ Core(heap0, input) = Null
                => /\ pc = "done"
                   /\ result = Null

====
